---- MODULE Spec2Model ----
(***************************************************************************)
(* Model of llama_recipes/utils/config_utils.py: the override reconciler   *)
(* update_config, the resolvers generate_peft_config and                   *)
(* generate_dataset_config, and the batching selector                      *)
(* get_dataloader_kwargs.                                                  *)
(*                                                                         *)
(* Python objects live in `heap` (a sequence; an object's reference is its *)
(* index).  A configuration object is [type, attrs]: the name of its class *)
(* and its attribute dictionary.  Every call is one action: it records the *)
(* heap it started from, its arguments, what it printed, the collaborator  *)
(* calls it made, and how it ended (a return value or an exception); the   *)
(* caller then goes on to its next call.                                   *)
(***************************************************************************)
EXTENDS Integers, Sequences, FiniteSets, TLC

VARIABLES
    heap,     \* the live configuration objects; heap[1] is the train_config
    pre,      \* the heap when the last call started
    call,     \* the last call: its name and arguments
    ret,      \* what the last call returned
    exc,      \* the exception the last call raised, or NoExc
    stdout,   \* the lines the last call printed
    events    \* the collaborator calls the last call made, in order

vars == <<heap, pre, call, ret, exc, stdout, events>>

----------------------------------------------------------------------------
(* Bounds of the model. *)

\* Most key/value pairs in one override set.
MaxOvr == 2
\* Most live configuration objects.
MaxObjs == 2
\* Size of the distributed process group when one is queried.
WorldSize == 2

----------------------------------------------------------------------------
(* Python strings.  An override key is a sequence of tokens, each either   *)
(* the separator "." or a maximal dot-free piece: "lora_config.r" is       *)
(* <<"lora_config", ".", "r">>.  A class or method name that is stripped   *)
(* character by character is given by its characters.                      *)

Dot == "."

Range(s) == {s[i] : i \in DOMAIN s}

\* "." in k
contains(k, sep) == \E i \in DOMAIN k : k[i] = sep

\* k.split("."): the pieces between the separators, empty pieces included.
RECURSIVE split(_, _)
split(k, sep) ==
    IF ~contains(k, sep) THEN <<k>>
    ELSE LET i == CHOOSE j \in DOMAIN k :
                      k[j] = sep /\ \A m \in 1..(j - 1) : k[m] # sep
         IN  <<SubSeq(k, 1, i - 1)>> \o split(SubSeq(k, i + 1, Len(k)), sep)

\* s.rstrip(chars): drops every trailing character that is in chars.
RECURSIVE rstrip(_, _)
rstrip(s, chars) ==
    IF s # <<>> /\ s[Len(s)] \in chars
    THEN rstrip(SubSeq(s, 1, Len(s) - 1), chars)
    ELSE s

\* tuple.index(x): the first position holding x.
index(t, x) == CHOOSE i \in DOMAIN t : t[i] = x /\ \A j \in 1..(i - 1) : t[j] # x

\* The characters of the names that are stripped or compared to the result.
chars(s) ==
    CASE s = "lora_config" -> <<"l","o","r","a","_","c","o","n","f","i","g">>
      [] s = "llama_adapter_config" ->
            <<"l","l","a","m","a","_","a","d","a","p","t","e","r",
              "_","c","o","n","f","i","g">>
      [] s = "prefix_config" ->
            <<"p","r","e","f","i","x","_","c","o","n","f","i","g">>
      [] s = "lora" -> <<"l","o","r","a">>
      [] s = "llama_adapter" ->
            <<"l","l","a","m","a","_","a","d","a","p","t","e","r">>
      [] s = "prefix" -> <<"p","r","e","f","i","x">>
      [] s = "not_a_real_method" ->
            <<"n","o","t","_","a","_","r","e","a","l","_",
              "m","e","t","h","o","d">>

----------------------------------------------------------------------------
(* Objects and exceptions. *)

NoExc == [type |-> "None", msg |-> ""]
raise(type, msg) == [type |-> type, msg |-> msg]

None == [kind |-> "None"]

\* hasattr(config, k): k is a Python string; attribute names are dot-free.
hasattr(config, k) == Len(k) = 1 /\ k[1] \in DOMAIN config.attrs

\* setattr(config, k, v), reached only when hasattr(config, k).
setattr(config, k, v) == [config EXCEPT !.attrs[k[1]] = v]

\* type(config).__name__ as a Python string.
type_name(config) == <<config.type>>

\* isinstance(config, train_config)
is_train_config(config) == config.type = "train_config"

\* The running call: the heap it works on and what it has produced so far.
Enter(h) == [heap |-> h, stdout |-> <<>>, exc |-> NoExc, events |-> <<>>, ret |-> None]

----------------------------------------------------------------------------
(* update_config(config, **kwargs).  kwargs is a dict: a sequence of       *)
(* [k, v] pairs with distinct keys, walked in insertion order.             *)

\* print(f"Warning: {config_name} does not accept parameter: {k}")
warn_not_accepted(config_name, k) ==
    <<"Warning: ", config_name, " does not accept parameter: ", k>>

\* print(f"Warning: unknown parameter {k}")
warn_unknown(k) == <<"Warning: unknown parameter ", k>>

\* apply_scoped with setattr given the whole key k instead of param_name:
\* the object gets an attribute named by the dotted key and the field keeps
\* its value.
apply_scoped_whole_key(st, ref, config_name, param_name, k, v) ==
    LET config == st.heap[ref] IN
    IF type_name(config) = config_name
    THEN IF hasattr(config, param_name)
         THEN [st EXCEPT !.events = Append(@, <<"setattr", param_name[1]>>)]
         ELSE [st EXCEPT !.stdout = Append(@, warn_not_accepted(config_name, k))]
    ELSE st

\* apply_scoped without the test of the class name.
apply_scoped_any_class(st, ref, config_name, param_name, k, v) ==
    LET config == st.heap[ref] IN
    IF hasattr(config, param_name)
    THEN [st EXCEPT !.heap[ref] = setattr(config, param_name, v),
                    !.events = Append(@, <<"setattr", param_name[1]>>)]
    ELSE [st EXCEPT !.stdout = Append(@, warn_not_accepted(config_name, k))]

\* The scoped branch once the key is split: the object takes the value when
\* it is of the named class and has the field, and is warned about when it is
\* of the named class and has no such field.
apply_scoped(st, ref, config_name, param_name, k, v) ==
    LET config == st.heap[ref] IN
    IF type_name(config) = config_name
    THEN IF hasattr(config, param_name)
         THEN [st EXCEPT !.heap[ref] = setattr(config, param_name, v),
                         !.events = Append(@, <<"setattr", param_name[1]>>)]
         ELSE [st EXCEPT !.stdout = Append(@, warn_not_accepted(config_name, k))]
    ELSE st

\* One pass of the loop body for the pair (k, v) on the object at ref.
\* config_name, param_name = k.split(".") raises ValueError unless the split
\* has exactly two pieces.
apply_pair(st, ref, k, v) ==
    LET config == st.heap[ref] IN
    IF hasattr(config, k)
    THEN [st EXCEPT !.heap[ref] = setattr(config, k, v),
                    !.events = Append(@, <<"setattr", k[1]>>)]
    ELSE IF contains(k, Dot)
    THEN LET parts == split(k, Dot) IN
         IF Len(parts) # 2
         THEN [st EXCEPT !.exc =
                  raise("ValueError", "too many values to unpack (expected 2)")]
         ELSE apply_scoped(st, ref, parts[1], parts[2], k, v)
    ELSE IF is_train_config(config)
    THEN [st EXCEPT !.stdout = Append(@, warn_unknown(k))]
    ELSE st

\* for k, v in kwargs.items(): ... ; an exception ends the loop.
RECURSIVE apply_overrides(_, _, _, _)
apply_overrides(st, ref, kwargs, i) ==
    IF i > Len(kwargs) \/ st.exc # NoExc THEN st
    ELSE apply_overrides(apply_pair(st, ref, kwargs[i].k, kwargs[i].v),
                         ref, kwargs, i + 1)

\* The argument of update_config: one object, or a list/tuple of arguments.
Single(ref) == [isList |-> FALSE, ref |-> ref]
List(items) == [isList |-> TRUE, items |-> items]

RECURSIVE update_config(_, _, _)
RECURSIVE update_each(_, _, _, _)

\* update_each leaving the loop after the first element.
update_each_first_only(st, items, kwargs, i) ==
    IF i > Len(items) \/ i > 1 THEN st
    ELSE update_config(st, items[i], kwargs)

\* for c in config: update_config(c, **kwargs); an exception ends the loop.
update_each(st, items, kwargs, i) ==
    IF i > Len(items) \/ st.exc # NoExc THEN st
    ELSE update_each(update_config(st, items[i], kwargs), items, kwargs, i + 1)

\* Binding **kwargs to the signature (config, **kwargs) raises TypeError
\* when a key is the name of the positional parameter, before the body runs.
update_config(st, config, kwargs) ==
    IF \E i \in DOMAIN kwargs : kwargs[i].k = <<"config">>
    THEN [st EXCEPT !.exc =
            raise("TypeError", "got multiple values for argument 'config'")]
    ELSE IF config.isList
    THEN update_each(st, config.items, kwargs, 1)
    ELSE apply_overrides(st, config.ref, kwargs, 1)

----------------------------------------------------------------------------
(* The configuration classes of llama_recipes.configs and the dataset      *)
(* registry of llama_recipes.utils.dataset_utils: their constructors build *)
(* a record of defaults.                                                   *)

\* train_config(): the fields config_utils.py reads.
train_config_defaults ==
    [peft_method |-> "lora", enable_fsdp |-> FALSE, enable_ddp |-> FALSE,
     batching_strategy |-> "packing", batch_size_training |-> 8,
     val_batch_size |-> 4, dataset |-> "samsum_dataset"]

lora_config_defaults == [r |-> 8, lora_alpha |-> 32]
llama_adapter_config_defaults == [adapter_len |-> 10, adapter_layers |-> 30]
prefix_config_defaults == [num_virtual_tokens |-> 30]

samsum_dataset_defaults ==
    [dataset |-> "samsum_dataset", train_split |-> "train",
     test_split |-> "validation"]
custom_dataset_defaults ==
    [dataset |-> "custom_dataset", file |-> "examples/custom_dataset.py",
     train_split |-> "train", test_split |-> "validation"]

\* cls(): a new object of class cls holding the defaults.
new(cls) ==
    [type |-> cls,
     attrs |-> CASE cls = "train_config" -> train_config_defaults
                 [] cls = "lora_config" -> lora_config_defaults
                 [] cls = "llama_adapter_config" -> llama_adapter_config_defaults
                 [] cls = "prefix_config" -> prefix_config_defaults
                 [] cls = "samsum_dataset" -> samsum_dataset_defaults
                 [] cls = "custom_dataset" -> custom_dataset_defaults]

\* DATASET_PREPROC.keys()
DATASET_PREPROC_keys == {"samsum_dataset", "custom_dataset"}

\* The classes inspect.getmembers(datasets) finds.
datasets_members == {"samsum_dataset", "custom_dataset"}

\* Calling cls() inside a call: the object is put on the heap.
instantiate(st, cls) ==
    [st EXCEPT !.heap = Append(@, new(cls)),
               !.events = Append(@, <<"instantiate", cls>>)]

\* A local object that no one references once the call is over.
discard(st) == [st EXCEPT !.heap = SubSeq(@, 1, Len(@) - 1)]

----------------------------------------------------------------------------
(* generate_peft_config(train_config, kwargs) *)

configs == <<"lora_config", "llama_adapter_config", "prefix_config">>
peft_configs == <<"LoraConfig", "AdaptionPromptConfig", "PrefixTuningConfig">>

\* tuple(c.__name__.rstrip("_config") for c in configs)
names ==
    [i \in DOMAIN configs |->
        rstrip(chars(configs[i]), {"_", "c", "o", "n", "f", "i", "g"})]

\* asdict(config)
asdict(config) == config.attrs

generate_peft_config(st, train_config, kwargs) ==
    LET tc == st.heap[train_config].attrs IN
    IF chars(tc.peft_method) \notin Range(names)
    THEN [st EXCEPT !.exc = raise("RuntimeError", "Peft config not found")]
    ELSE IF tc.peft_method = "prefix"
    THEN [st EXCEPT !.exc =
            raise("RuntimeError", "PrefixTuning is currently not supported")]
    ELSE IF tc.enable_fsdp /\ tc.peft_method = "llama_adapter"
    THEN [st EXCEPT !.exc =
            raise("RuntimeError",
                  "Llama_adapter is currently not supported in combination with FSDP")]
    ELSE LET idx    == index(names, chars(tc.peft_method))
             st1    == instantiate(st, configs[idx])
             config == Len(st1.heap)
             st2    == update_config(st1, Single(config), kwargs)
         IN  IF st2.exc # NoExc THEN discard(st2)
             ELSE discard(
                    [st2 EXCEPT
                       !.events = Append(@, <<"construct", peft_configs[idx]>>),
                       !.ret = [kind |-> "peft_config", cls |-> peft_configs[idx],
                                params |-> asdict(st2.heap[config])]])

----------------------------------------------------------------------------
(* generate_dataset_config(train_config, kwargs) *)

\* generate_dataset_config reconciling the overrides into the train_config
\* as well as into the new object.
generate_dataset_config_broadcast(st, train_config, kwargs) ==
    LET tc == st.heap[train_config].attrs IN
    IF tc.dataset \notin DATASET_PREPROC_keys
    THEN [st EXCEPT !.exc = raise("AssertionError", "Unknown dataset")]
    ELSE IF tc.dataset \notin datasets_members
    THEN [st EXCEPT !.exc = raise("KeyError", tc.dataset)]
    ELSE LET st1            == instantiate(st, tc.dataset)
             dataset_config == Len(st1.heap)
             st2 == update_config(st1, List(<<Single(train_config),
                                              Single(dataset_config)>>), kwargs)
         IN  IF st2.exc # NoExc THEN discard(st2)
             ELSE [st2 EXCEPT !.ret = [kind |-> "ref", ref |-> dataset_config]]

generate_dataset_config(st, train_config, kwargs) ==
    LET tc == st.heap[train_config].attrs IN
    IF tc.dataset \notin DATASET_PREPROC_keys
    THEN [st EXCEPT !.exc = raise("AssertionError", "Unknown dataset")]
    ELSE IF tc.dataset \notin datasets_members
    THEN [st EXCEPT !.exc = raise("KeyError", tc.dataset)]
    ELSE LET st1            == instantiate(st, tc.dataset)
             dataset_config == Len(st1.heap)
             st2 == update_config(st1, Single(dataset_config), kwargs)
         IN  IF st2.exc # NoExc THEN discard(st2)
             ELSE [st2 EXCEPT !.ret = [kind |-> "ref", ref |-> dataset_config]]

----------------------------------------------------------------------------
(* get_dataloader_kwargs(train_config, dataset, tokenizer, mode).  dist is *)
(* the process group: what get_rank() and get_world_size() answer.         *)

\* query_dist asking for the rank twice, once more for num_replicas.
query_dist_rank_twice(st) ==
    [st EXCEPT !.events = @ \o <<<<"query", "dist.get_rank">>,
                                 <<"query", "dist.get_rank">>>>]

\* dist.get_rank(), dist.get_world_size(): the two queries, in this order.
query_dist(st) ==
    [st EXCEPT !.events = @ \o <<<<"query", "dist.get_rank">>,
                                 <<"query", "dist.get_world_size">>>>]

\* kwargs[key] = value, value being a newly constructed cls object.
put_new(st, key, cls, value) ==
    [st EXCEPT !.events = Append(@, <<"construct", cls>>),
               !.ret = (key :> value) @@ @]

\* kwargs[key] = value
put(st, key, value) == [st EXCEPT !.ret = (key :> value) @@ @]

\* batch_size = ... if mode=="train" else ...
select_batch_size(tc, mode) ==
    IF mode = "train" THEN tc.batch_size_training ELSE tc.val_batch_size

\* padding_batch_sampler taking the distributed sampler under either flag.
padding_batch_sampler_either_flag(st, tc, dataset, batch_size, mode, dist) ==
    IF tc.enable_fsdp \/ tc.enable_ddp
    THEN put_new(query_dist(st), "batch_sampler",
             "DistributedLengthBasedBatchSampler",
             [cls |-> "DistributedLengthBasedBatchSampler",
              dataset |-> dataset, batch_size |-> batch_size,
              rank |-> dist.rank, num_replicas |-> dist.world_size,
              shuffle |-> (mode = "train")])
    ELSE put_new(st, "batch_sampler", "LengthBasedBatchSampler",
             [cls |-> "LengthBasedBatchSampler",
              dataset |-> dataset, batch_size |-> batch_size,
              drop_last |-> TRUE, shuffle |-> (mode = "train")])

\* kwargs["batch_sampler"] under "padding".
padding_batch_sampler(st, tc, dataset, batch_size, mode, dist) ==
    IF tc.enable_fsdp
    THEN put_new(query_dist(st), "batch_sampler",
             "DistributedLengthBasedBatchSampler",
             [cls |-> "DistributedLengthBasedBatchSampler",
              dataset |-> dataset, batch_size |-> batch_size,
              rank |-> dist.rank, num_replicas |-> dist.world_size,
              shuffle |-> (mode = "train")])
    ELSE put_new(st, "batch_sampler", "LengthBasedBatchSampler",
             [cls |-> "LengthBasedBatchSampler",
              dataset |-> dataset, batch_size |-> batch_size,
              drop_last |-> TRUE, shuffle |-> (mode = "train")])

\* packing_sampler without the enable_ddp branch.
packing_sampler_fsdp_only(st, tc, dataset, mode, dist) ==
    IF tc.enable_fsdp
    THEN put_new(query_dist(st), "sampler", "DistributedSampler",
             [cls |-> "DistributedSampler", dataset |-> dataset,
              rank |-> dist.rank, num_replicas |-> dist.world_size,
              shuffle |-> (mode = "train"), drop_last |-> TRUE])
    ELSE st

\* kwargs["sampler"] under "packing", when a distributed flag is set.
packing_sampler(st, tc, dataset, mode, dist) ==
    IF tc.enable_fsdp
    THEN put_new(query_dist(st), "sampler", "DistributedSampler",
             [cls |-> "DistributedSampler", dataset |-> dataset,
              rank |-> dist.rank, num_replicas |-> dist.world_size,
              shuffle |-> (mode = "train"), drop_last |-> TRUE])
    ELSE IF tc.enable_ddp
    THEN put_new(query_dist(st), "sampler", "DistributedSampler",
             [cls |-> "DistributedSampler", dataset |-> dataset,
              rank |-> dist.rank, num_replicas |-> dist.world_size,
              shuffle |-> (mode = "train"), drop_last |-> TRUE])
    ELSE st

get_dataloader_kwargs(st, train_config, dataset, tokenizer, mode, dist) ==
    LET tc         == st.heap[train_config].attrs
        st0        == [st EXCEPT !.ret = <<>>]
        batch_size == select_batch_size(tc, mode)
    IN
    IF tc.batching_strategy = "padding"
    THEN put_new(padding_batch_sampler(st0, tc, dataset, batch_size, mode, dist),
                 "collate_fn", "DataCollatorForSeq2Seq",
                 [cls |-> "DataCollatorForSeq2Seq", tokenizer |-> tokenizer])
    ELSE IF tc.batching_strategy = "packing"
    THEN put(put(put(packing_sampler(st0, tc, dataset, mode, dist),
                     "batch_size", batch_size),
                 "drop_last", TRUE),
             "collate_fn", "default_data_collator")
    ELSE [st EXCEPT !.exc = raise("ValueError", "Unknown batching strategy")]

----------------------------------------------------------------------------
(* The inputs the calls are made with. *)

\* kwargs: the dicts of at most MaxOvr pairs over the given pairs.
Kwargs(pairs) ==
    UNION {{s \in [1..n -> pairs] :
                \A i, j \in 1..n : i # j => s[i].k # s[j].k} : n \in 0..MaxOvr}

\* Override pairs for the reconciler: a plain field of the dataset classes
\* (no field of train_config), the same field scoped to samsum_dataset with
\* another value, a plain field of train_config (no field of the dataset
\* classes), a scoped key whose field no class has, a key with two
\* separators, and a key that is the name of update_config's parameter.
ReconcilePairs ==
    {[k |-> <<"train_split">>, v |-> "val"],
     [k |-> <<"samsum_dataset", Dot, "train_split">>, v |-> "test"],
     [k |-> <<"enable_fsdp">>, v |-> TRUE],
     [k |-> <<"train_config", Dot, "nonexistent">>, v |-> 1],
     [k |-> <<"a", Dot, "b", Dot, "c">>, v |-> 1],
     [k |-> <<"config">>, v |-> 1]}

\* Override pairs for the resolvers: a field of lora_config, a field that
\* train_config and the dataset classes share, that field scoped to
\* train_config, a key with two separators, and a key that is the name of
\* update_config's parameter.
ResolvePairs ==
    {[k |-> <<"r">>, v |-> 16],
     [k |-> <<"dataset">>, v |-> "custom_dataset"],
     [k |-> <<"train_config", Dot, "dataset">>, v |-> "custom_dataset"],
     [k |-> <<"a", Dot, "b", Dot, "c">>, v |-> 1],
     [k |-> <<"config">>, v |-> 1]}

\* The lists of distinct objects of heap h.
Lists(h) ==
    UNION {{s \in [1..n -> DOMAIN h] : \A i, j \in 1..n : i # j => s[i] # s[j]}
              : n \in 0..Len(h)}

\* The arguments update_config is called with: one object or a list of them.
Args(h) ==
    {Single(r) : r \in DOMAIN h}
        \cup {List([i \in DOMAIN s |-> Single(s[i])]) : s \in Lists(h)}

\* The train_config objects of heap h.
TrainConfigRefs(h) == {r \in DOMAIN h : h[r].type = "train_config"}

PeftMethods == {"lora", "llama_adapter", "prefix", "not_a_real_method"}
BatchingStrategies == {"padding", "packing", "unknown_strategy"}
DatasetNames == {"samsum_dataset", "unknown_dataset"}
\* mode: "train", or anything else for evaluation.
Modes == {"train", "val", "test"}
Tokenizers == {"tokenizer_a", "tokenizer_b"}

\* The train_config objects a run starts from.
TrainConfigs ==
    {[type |-> "train_config",
      attrs |-> [train_config_defaults EXCEPT
                    !.peft_method = m, !.enable_fsdp = f, !.enable_ddp = d,
                    !.batching_strategy = b, !.dataset = ds]] :
        m \in PeftMethods, f \in BOOLEAN, d \in BOOLEAN,
        b \in BatchingStrategies, ds \in DatasetNames}

\* The process group as one process sees it.
Dists == {[rank |-> r, world_size |-> WorldSize] : r \in 0..(WorldSize - 1)}

----------------------------------------------------------------------------
(* The calls. *)

NoCall == [op |-> "none"]

\* The caller makes one call at a time.
Idle == call = NoCall

\* The call is over: what it did becomes the state.
Return(c, st) ==
    /\ pre' = heap
    /\ call' = c
    /\ heap' = st.heap
    /\ ret' = st.ret
    /\ exc' = st.exc
    /\ stdout' = st.stdout
    /\ events' = st.events

UpdateConfig(config, kwargs) ==
    Return([op |-> "update_config", config |-> config, kwargs |-> kwargs],
           update_config(Enter(heap), config, kwargs))

GeneratePeftConfig(train_config, kwargs) ==
    Return([op |-> "generate_peft_config", train_config |-> train_config,
            kwargs |-> kwargs],
           generate_peft_config(Enter(heap), train_config, kwargs))

GenerateDatasetConfig(train_config, kwargs) ==
    /\ Len(heap) < MaxObjs
    /\ Return([op |-> "generate_dataset_config", train_config |-> train_config,
               kwargs |-> kwargs],
              generate_dataset_config(Enter(heap), train_config, kwargs))

GetDataloaderKwargs(train_config, dataset, tokenizer, mode, dist) ==
    Return([op |-> "get_dataloader_kwargs", train_config |-> train_config,
            dataset |-> dataset, tokenizer |-> tokenizer, mode |-> mode,
            dist |-> dist],
           get_dataloader_kwargs(Enter(heap), train_config, dataset, tokenizer,
                                 mode, dist))

\* The caller has seen how the call ended and goes on; the objects stay.
Continue ==
    /\ ~Idle
    /\ pre' = heap
    /\ call' = NoCall
    /\ ret' = None
    /\ exc' = NoExc
    /\ stdout' = <<>>
    /\ events' = <<>>
    /\ UNCHANGED heap

\* A run of the reconciler: the caller holds a default train_config, has
\* dataset configurations resolved, and reconciles overrides into them.
Init ==
    /\ heap = <<new("train_config")>>
    /\ pre = heap
    /\ call = NoCall
    /\ ret = None
    /\ exc = NoExc
    /\ stdout = <<>>
    /\ events = <<>>

Next ==
    \/ /\ Idle
       /\ \E config \in Args(heap), kwargs \in Kwargs(ReconcilePairs) :
              UpdateConfig(config, kwargs)
    \/ /\ Idle
       /\ \E tc \in TrainConfigRefs(heap), kwargs \in Kwargs(ReconcilePairs) :
              GenerateDatasetConfig(tc, kwargs)
    \/ Continue

Spec == Init /\ [][Next]_vars

\* A run of the resolvers and the batching selector on any train_config.
InitResolve ==
    /\ heap \in {<<tc>> : tc \in TrainConfigs}
    /\ pre = heap
    /\ call = NoCall
    /\ ret = None
    /\ exc = NoExc
    /\ stdout = <<>>
    /\ events = <<>>

NextResolve ==
    \/ /\ Idle
       /\ \E tc \in TrainConfigRefs(heap), kwargs \in Kwargs(ResolvePairs) :
              GeneratePeftConfig(tc, kwargs)
    \/ /\ Idle
       /\ \E tc \in TrainConfigRefs(heap), kwargs \in Kwargs(ResolvePairs) :
              GenerateDatasetConfig(tc, kwargs)
    \/ /\ Idle
       /\ \E tc \in TrainConfigRefs(heap), tokenizer \in Tokenizers,
             mode \in Modes, dist \in Dists :
              GetDataloaderKwargs(tc, "dataset", tokenizer, mode, dist)
    \/ Continue

SpecResolve == InitResolve /\ [][NextResolve]_vars

----------------------------------------------------------------------------
(* Vocabulary of the properties. *)

\* The objects an argument of update_config names.
RECURSIVE ArgRefs(_)
ArgRefs(config) ==
    IF config.isList
    THEN UNION {ArgRefs(config.items[i]) : i \in DOMAIN config.items}
    ELSE {config.ref}

\* A plain key: a single piece with no separator.
IsPlain(k) == Len(k) = 1 /\ k[1] # Dot

\* A dotted pair "<T>.<f>": two pieces around one separator.
IsDottedPair(k) == Len(k) = 3 /\ k[1] # Dot /\ k[2] = Dot /\ k[3] # Dot

\* The pair with key k names field f of object obj: plainly, or scoped to
\* the name of obj's class.
Resolves(k, obj, f) ==
    /\ f \in DOMAIN obj.attrs
    /\ \/ k = <<f>>
       \/ k = <<obj.type, Dot, f>>

\* The orders in which the pairs of a dict can be written.
Orders(kwargs) ==
    {[i \in DOMAIN kwargs |-> kwargs[p[i]]] : p \in Permutations(DOMAIN kwargs)}

IsUpdate == call.op = "update_config"

----------------------------------------------------------------------------
(* C1: update_config never raises for unknown keys: whatever the keys of   *)
(* the override set (naming no field, scoped to a class that matches or    *)
(* not, holding more than one "."), the call completes normally.           *)
C1_NeverRaises == IsUpdate => exc = NoExc

----------------------------------------------------------------------------
(* C2: after update_config(C, k=v) with a plain key k, every object of C   *)
(* that has a field k has it equal to v and its other fields unchanged,    *)
(* and every other object is unchanged.                                    *)
C2_PlainKeyFrame ==
    (IsUpdate /\ Len(call.kwargs) = 1 /\ IsPlain(call.kwargs[1].k)) =>
        LET k == call.kwargs[1].k[1]
            v == call.kwargs[1].v
        IN  /\ DOMAIN heap = DOMAIN pre
            /\ \A r \in DOMAIN pre :
                 IF r \in ArgRefs(call.config) /\ k \in DOMAIN pre[r].attrs
                 THEN /\ heap[r].type = pre[r].type
                      /\ DOMAIN heap[r].attrs = DOMAIN pre[r].attrs
                      /\ heap[r].attrs[k] = v
                      /\ \A f \in DOMAIN pre[r].attrs \ {k} :
                            heap[r].attrs[f] = pre[r].attrs[f]
                 ELSE heap[r] = pre[r]

\* A list of two objects, one with the field and one without; the field of
\* the one that has it has changed.
C2_Witness ==
    /\ IsUpdate /\ Len(call.kwargs) = 1 /\ IsPlain(call.kwargs[1].k)
    /\ call.config.isList /\ Len(call.config.items) = 2
    /\ \E r1, r2 \in ArgRefs(call.config) :
          /\ call.kwargs[1].k[1] \in DOMAIN pre[r1].attrs
          /\ call.kwargs[1].k[1] \notin DOMAIN pre[r2].attrs
          /\ heap[r1] # pre[r1]
          /\ heap[r1].attrs[call.kwargs[1].k[1]] = call.kwargs[1].v

----------------------------------------------------------------------------
(* C3, as stated: for every override set of plain keys and dotted pairs,   *)
(* also one that holds a plain key f and a scoped key T.f with different   *)
(* values, update_config leaves the objects in the same final state for    *)
(* every order of the pairs.                                               *)
C3_OrderIrrelevant ==
    (IsUpdate /\ \A i \in DOMAIN call.kwargs :
                    IsPlain(call.kwargs[i].k) \/ IsDottedPair(call.kwargs[i].k)) =>
        \A kwargs \in Orders(call.kwargs) :
            update_config(Enter(pre), call.config, kwargs).heap = heap

\* Two pairs of the override set name the same field of an object of the
\* call with different values.
Conflict(kwargs, config, h) ==
    \E r \in ArgRefs(config), i, j \in DOMAIN kwargs :
        /\ i # j
        /\ \E f \in DOMAIN h[r].attrs :
              /\ Resolves(kwargs[i].k, h[r], f)
              /\ Resolves(kwargs[j].k, h[r], f)
              /\ kwargs[i].v # kwargs[j].v

\* The positions of the pairs of kwargs that name field f of obj.
Hits(kwargs, obj, f) == {i \in DOMAIN kwargs : Resolves(kwargs[i].k, obj, f)}

Last(S) == CHOOSE i \in S : \A j \in S : j <= i

(* C3, amended: for every override set of plain keys and dotted pairs,     *)
(* the final state is the same for every order of the pairs unless two     *)
(* pairs name the same field of the same object (plainly or scoped to the  *)
(* object's class) with different values; and when the call completes,     *)
(* every field of every object of the call holds the value of the last     *)
(* pair that names it, or its old value when no pair names it, so that of  *)
(* two such pairs the later one wins.                                      *)
C3_LastPairWins ==
    (IsUpdate /\ \A i \in DOMAIN call.kwargs :
                    IsPlain(call.kwargs[i].k) \/ IsDottedPair(call.kwargs[i].k)) =>
        /\ ~Conflict(call.kwargs, call.config, pre) =>
              \A kwargs \in Orders(call.kwargs) :
                  update_config(Enter(pre), call.config, kwargs).heap = heap
        /\ exc = NoExc =>
              /\ DOMAIN heap = DOMAIN pre
              /\ \A r \in DOMAIN pre :
                   IF r \in ArgRefs(call.config)
                   THEN /\ heap[r].type = pre[r].type
                        /\ DOMAIN heap[r].attrs = DOMAIN pre[r].attrs
                        /\ \A f \in DOMAIN pre[r].attrs :
                             LET hits == Hits(call.kwargs, pre[r], f) IN
                             heap[r].attrs[f] =
                                 IF hits = {} THEN pre[r].attrs[f]
                                              ELSE call.kwargs[Last(hits)].v
                   ELSE heap[r] = pre[r]

\* A plain key and a scoped key name the same field of an object of the
\* call with different values, and the field holds the later one.
C3_Witness ==
    /\ IsUpdate
    /\ \E r \in ArgRefs(call.config), i, j \in DOMAIN call.kwargs :
          /\ i < j
          /\ IsPlain(call.kwargs[i].k) /\ IsDottedPair(call.kwargs[j].k)
          /\ \E f \in DOMAIN pre[r].attrs :
                /\ Resolves(call.kwargs[i].k, pre[r], f)
                /\ Resolves(call.kwargs[j].k, pre[r], f)
                /\ call.kwargs[i].v # call.kwargs[j].v
                /\ heap[r].attrs[f] = call.kwargs[j].v
                /\ pre[r].attrs[f] # call.kwargs[j].v

----------------------------------------------------------------------------
(* C8: a call with the one dotted pair "<T>.<f>", f a field of no object   *)
(* of the call, prints one "does not accept parameter" warning for each    *)
(* object whose class is named T and nothing for any other object, and     *)
(* changes no object; and an "unknown parameter" warning is printed only   *)
(* for a plain key that is no field of a train_config object of the call.  *)
C8_ScopedUnknownField ==
    IsUpdate =>
        /\ \A n \in DOMAIN stdout :
              stdout[n][1] = "Warning: unknown parameter " =>
                  \E i \in DOMAIN call.kwargs, r \in ArgRefs(call.config) :
                      /\ stdout[n] = <<"Warning: unknown parameter ", call.kwargs[i].k>>
                      /\ IsPlain(call.kwargs[i].k)
                      /\ pre[r].type = "train_config"
                      /\ call.kwargs[i].k[1] \notin DOMAIN pre[r].attrs
        /\ (/\ Len(call.kwargs) = 1
            /\ IsDottedPair(call.kwargs[1].k)
            /\ \A r \in ArgRefs(call.config) :
                  call.kwargs[1].k[3] \notin DOMAIN pre[r].attrs) =>
               LET k == call.kwargs[1].k
                   named == {r \in ArgRefs(call.config) : pre[r].type = k[1]}
               IN  /\ exc = NoExc
                   /\ heap = pre
                   /\ Len(stdout) = Cardinality(named)
                   /\ \A n \in DOMAIN stdout :
                         stdout[n] = <<"Warning: ", <<k[1]>>,
                                       " does not accept parameter: ", k>>

\* The scoped key names the class of one object of a list of two and a field
\* neither has: one warning, for the object of the named class.
C8_Witness ==
    /\ IsUpdate /\ Len(call.kwargs) = 1 /\ IsDottedPair(call.kwargs[1].k)
    /\ call.config.isList /\ Len(call.config.items) = 2
    /\ \A r \in ArgRefs(call.config) :
          call.kwargs[1].k[3] \notin DOMAIN pre[r].attrs
    /\ \E r1, r2 \in ArgRefs(call.config) :
          /\ pre[r1].type = call.kwargs[1].k[1]
          /\ pre[r2].type # call.kwargs[1].k[1]
    /\ Len(stdout) = 1
    /\ heap = pre

----------------------------------------------------------------------------
(* Vocabulary of the properties of the resolvers and the selector.         *)

IsPeft == call.op = "generate_peft_config"
IsDataset == call.op = "generate_dataset_config"
IsLoader == call.op = "get_dataloader_kwargs"

\* The train_config the last call was given, as it was when the call began.
GivenConfig == pre[call.train_config].attrs

UnknownMethod == [type |-> "RuntimeError", msg |-> "Peft config not found"]
UnsupportedMethod ==
    [type |-> "RuntimeError", msg |-> "PrefixTuning is currently not supported"]
IncompatibleCombination ==
    [type |-> "RuntimeError",
     msg |-> "Llama_adapter is currently not supported in combination with FSDP"]
UnknownBatchingStrategy ==
    [type |-> "ValueError", msg |-> "Unknown batching strategy"]

\* How often event e was made by the last call.
Count(e) == Cardinality({n \in DOMAIN events : events[n] = e})

\* The batch size the mode selects.
ModeBatchSize ==
    IF call.mode = "train" THEN GivenConfig.batch_size_training
                           ELSE GivenConfig.val_batch_size

----------------------------------------------------------------------------
(* C4: the outcome of generate_peft_config is decided by peft_method and   *)
(* enable_fsdp alone, for every override set: a name outside lora,         *)
(* llama_adapter, prefix fails with UnknownMethod; prefix fails with       *)
(* UnsupportedMethod; llama_adapter with enable_fsdp fails with            *)
(* IncompatibleCombination; lora, and llama_adapter without enable_fsdp,   *)
(* return the adapter configuration of that method.                        *)
C4_OutcomeByMethodAndFlag ==
    IsPeft =>
        LET m == GivenConfig.peft_method
            f == GivenConfig.enable_fsdp
        IN  /\ m \notin {"lora", "llama_adapter", "prefix"} => exc = UnknownMethod
            /\ m = "prefix" => exc = UnsupportedMethod
            /\ (m = "llama_adapter" /\ f) => exc = IncompatibleCombination
            /\ m = "lora" =>
                 exc = NoExc /\ ret.kind = "peft_config" /\ ret.cls = "LoraConfig"
            /\ (m = "llama_adapter" /\ ~f) =>
                 /\ exc = NoExc /\ ret.kind = "peft_config"
                 /\ ret.cls = "AdaptionPromptConfig"

----------------------------------------------------------------------------
(* C5: an unknown batching strategy fails with UnknownBatchingStrategy for *)
(* every mode and flags, and every failing call of generate_peft_config,   *)
(* generate_dataset_config or get_dataloader_kwargs fails before any       *)
(* configuration is instantiated, any override applied, rank or world size *)
(* queried, or any sampler, collator or adapter object constructed.        *)
C5_NoPartialConstruction ==
    /\ (IsLoader /\ GivenConfig.batching_strategy \notin {"padding", "packing"})
            => exc = UnknownBatchingStrategy
    /\ ((IsPeft \/ IsDataset \/ IsLoader) /\ exc # NoExc)
            => events = <<>> /\ heap = pre

----------------------------------------------------------------------------
(* C6: under "padding", whatever the mode and the two flags, the result    *)
(* holds exactly batch_sampler and collate_fn; the batch sampler is the    *)
(* distributed length-based one, given rank and world size, iff            *)
(* enable_fsdp is set, and else the local one with drop_last; its batch    *)
(* size is the one the mode selects and it shuffles iff the mode is train; *)
(* collate_fn is the seq2seq collator of the given tokenizer.              *)
C6_PaddingKwargs ==
    (IsLoader /\ GivenConfig.batching_strategy = "padding") =>
        /\ exc = NoExc
        /\ DOMAIN ret = {"batch_sampler", "collate_fn"}
        /\ ret.collate_fn =
              [cls |-> "DataCollatorForSeq2Seq", tokenizer |-> call.tokenizer]
        /\ ret.batch_sampler.batch_size = ModeBatchSize
        /\ ret.batch_sampler.shuffle = (call.mode = "train")
        /\ ret.batch_sampler.dataset = call.dataset
        /\ IF GivenConfig.enable_fsdp
           THEN /\ DOMAIN ret.batch_sampler =
                      {"cls", "dataset", "batch_size", "rank", "num_replicas",
                       "shuffle"}
                /\ ret.batch_sampler.cls = "DistributedLengthBasedBatchSampler"
                /\ ret.batch_sampler.rank = call.dist.rank
                /\ ret.batch_sampler.num_replicas = call.dist.world_size
           ELSE /\ DOMAIN ret.batch_sampler =
                      {"cls", "dataset", "batch_size", "drop_last", "shuffle"}
                /\ ret.batch_sampler.cls = "LengthBasedBatchSampler"
                /\ ret.batch_sampler.drop_last = TRUE

\* "padding" with enable_ddp alone, in validation mode: the local sampler.
C6_Witness ==
    /\ IsLoader /\ GivenConfig.batching_strategy = "padding"
    /\ GivenConfig.enable_ddp /\ ~GivenConfig.enable_fsdp
    /\ call.mode = "val"
    /\ exc = NoExc
    /\ ret.batch_sampler.cls = "LengthBasedBatchSampler"
    /\ ret.batch_sampler.batch_size = GivenConfig.val_batch_size

----------------------------------------------------------------------------
(* C7: under "packing", whatever the mode and the two flags, the result    *)
(* holds batch_size (the one the mode selects), drop_last = true and the   *)
(* default collate function, never a batch_sampler, and a sampler iff      *)
(* enable_fsdp or enable_ddp is set: the distributed sampler of rank and   *)
(* world size, with drop_last and shuffling iff the mode is train, the     *)
(* same whichever of the two flags is set.                                 *)
C7_PackingKwargs ==
    (IsLoader /\ GivenConfig.batching_strategy = "packing") =>
        /\ exc = NoExc
        /\ DOMAIN ret =
              {"batch_size", "drop_last", "collate_fn"} \cup
              (IF GivenConfig.enable_fsdp \/ GivenConfig.enable_ddp
               THEN {"sampler"} ELSE {})
        /\ ret.batch_size = ModeBatchSize
        /\ ret.drop_last = TRUE
        /\ ret.collate_fn = "default_data_collator"
        /\ "sampler" \in DOMAIN ret =>
              ret.sampler =
                 [cls |-> "DistributedSampler", dataset |-> call.dataset,
                  rank |-> call.dist.rank,
                  num_replicas |-> call.dist.world_size,
                  shuffle |-> (call.mode = "train"), drop_last |-> TRUE]

\* "packing" with enable_ddp alone, in train mode: the distributed sampler.
C7_Witness ==
    /\ IsLoader /\ GivenConfig.batching_strategy = "packing"
    /\ GivenConfig.enable_ddp /\ ~GivenConfig.enable_fsdp
    /\ call.mode = "train"
    /\ exc = NoExc
    /\ "sampler" \in DOMAIN ret
    /\ ret.sampler.shuffle
    /\ ret.batch_size = GivenConfig.batch_size_training

----------------------------------------------------------------------------
(* C9: generate_peft_config and generate_dataset_config leave the          *)
(* train_config, and every object that existed before the call, as it was, *)
(* on success and on failure, also when override keys name fields of the   *)
(* train_config; the overrides reach only the object the call creates,     *)
(* which no earlier object is.                                             *)
C9_TrainConfigUntouched ==
    (IsPeft \/ IsDataset) =>
        /\ \A r \in DOMAIN pre : r \in DOMAIN heap /\ heap[r] = pre[r]
        /\ IsPeft => heap = pre
        /\ (IsDataset /\ exc = NoExc) =>
              /\ ret.kind = "ref"
              /\ ret.ref \notin DOMAIN pre
              /\ DOMAIN heap = DOMAIN pre \cup {ret.ref}
        /\ exc # NoExc => heap = pre

\* An override names a field the train_config and the new dataset object
\* share: the new object took the value, the train_config kept its own.
C9_Witness ==
    /\ IsDataset /\ exc = NoExc
    /\ \E i \in DOMAIN call.kwargs :
          /\ Resolves(call.kwargs[i].k, pre[call.train_config], "dataset")
          /\ heap[ret.ref].attrs.dataset = call.kwargs[i].v
          /\ GivenConfig.dataset # call.kwargs[i].v
    /\ heap[call.train_config].attrs.dataset = GivenConfig.dataset

----------------------------------------------------------------------------
(* C10: get_dataloader_kwargs queries rank and world size once each when   *)
(* the strategy is "padding" with enable_fsdp, or "packing" with           *)
(* enable_fsdp or enable_ddp, and never in any other call.                 *)
C10_DistQueries ==
    IsLoader =>
        LET distributed ==
              \/ /\ GivenConfig.batching_strategy = "padding"
                 /\ GivenConfig.enable_fsdp
              \/ /\ GivenConfig.batching_strategy = "packing"
                 /\ (GivenConfig.enable_fsdp \/ GivenConfig.enable_ddp)
            n == IF distributed THEN 1 ELSE 0
        IN  /\ Count(<<"query", "dist.get_rank">>) = n
            /\ Count(<<"query", "dist.get_world_size">>) = n

\* "packing" with both flags set: still one query of each.
C10_Witness ==
    /\ IsLoader /\ GivenConfig.batching_strategy = "packing"
    /\ GivenConfig.enable_fsdp /\ GivenConfig.enable_ddp
    /\ Count(<<"query", "dist.get_rank">>) = 1
    /\ Count(<<"query", "dist.get_world_size">>) = 1

====
